---------------------------- MODULE Spec2Model ----------------------------
(***************************************************************************)
(* A model of briansorahan/osc as found in src/message.go:                 *)
(*   - the message codec (NewMessage, Write*, Read*, bytes, parseMessage), *)
(*   - the pattern-matching dispatcher (Dispatch, immediately, invoke,     *)
(*     Invoke),                                                            *)
(*   - the UDP server (Serve, serve, Close) with its goroutines.           *)
(* Three specifications share the variables: SpecMsg drives the codec,     *)
(* SpecDispatch the dispatcher, SpecServe the server.  Each leaves the     *)
(* variables of the other two at their initial values.                     *)
(***************************************************************************)
EXTENDS Integers, Sequences, FiniteSets, TLC

VARIABLES
    \* ---- codec ----
    msg,        \* the Message under construction / being read
    sent,       \* the Message as it was when the writer finished (before the wire)
    written,    \* the arguments given to the Write* calls so far, in order
    reads,      \* the values returned by the successful typed reads, in order
    last,       \* outcome of the last codec call: "none", "ok", "err" or "panic"
    lastOp,     \* the last read called: "i", "f", "T", "s", "b", "print"; "none" before any
    phase,      \* "write", "read" (reading the built message), "recv" (reading the parsed
                \* one), "wire" (reading a message parsed from a received datagram),
                \* "parseFailed", "dead" (a read panicked)
    \* ---- dispatcher ----
    table,      \* PatternMatching: the registered addresses, in the order they were registered
    clock,      \* wall clock (time.Now())
    dstate,     \* position of the dispatch call: "idle", "waiting", "done"
    dpacket,    \* the packet handed to Dispatch (a bundle) or Invoke (a message)
    dexact,     \* the exactMatch argument
    dbad,       \* the handlers whose Handle returns an error during this call
    dnow,       \* Dispatch's local now
    deadline,   \* the instant at which the pending time.After timer fires
    calls,      \* handler invocations of this call, in order: [handler, addr, at]
    invoked,    \* packets handed to invoke during this call, in order
    dresult,    \* what the call returned: "none", "nil", "err"
    dcancel,    \* TRUE once the context of the connection has been cancelled
    waitCancelled, \* TRUE when that happened while this call was waiting on its timer
    \* ---- server ----
    servePc,    \* Serve: "init", "select", "returned"
    serveRet,   \* value Serve returned: "none", "invalid", "nil", "ctx", "wrapped"
    loopPc,     \* reader goroutine: "off", "read", "sendErr", "recvReady", "handoff"
    loopData,   \* the datagram the reader holds, 0 if none
    loopWorker, \* the worker the reader took from ready, 0 if none
    ready,      \* the buffered channel ready, a sequence of workers
    workerPc,   \* per worker: "signal", "recv", "parse", "handling", "sendErr", "sendParseErr", "exited"
    workerData, \* per worker: the datagram it holds, 0 if none
    closed,     \* closeChan closed and socket closed
    closeRet,   \* value Close returned: "none", "nil", "err"
    workerLast, \* per worker: what its last dispatch did (handlers called, which of
                \* them failed, error returned), cleared when it signals ready again
    ctxDone,    \* conn.ctx cancelled
    nread,      \* datagrams read from the socket so far
    handed      \* hand-offs so far: <<datagram, worker>>

codecVars  == <<msg, sent, written, reads, last, lastOp, phase>>
dispVars   == <<table, clock, dstate, dpacket, dexact, dbad, dnow, deadline, calls,
                invoked, dresult, dcancel, waitCancelled>>
serveVars  == <<servePc, serveRet, loopPc, loopData, loopWorker, ready, workerPc,
                workerData, closed, closeRet, workerLast, ctxDone, nread, handed>>
vars       == <<codecVars, dispVars, serveVars>>

-----------------------------------------------------------------------------
(* Bounds of the model *)
MaxArgs == 2          \* Write* calls per message
MaxTime == 2          \* the clock stops advancing here
MaxWorkers == 2       \* numWorkers given to Serve
MaxDatagrams == 2     \* datagrams the socket delivers

-----------------------------------------------------------------------------
(* Bytes and 32-bit big-endian words (encoding/binary, byteOrder)          *)

typetagPrefix == 44   \* ','
typetagInt    == 105  \* 'i'
typetagFloat  == 102  \* 'f'
typetagString == 115  \* 's'
typetagBlob   == 98   \* 'b'
typetagTrue   == 84   \* 'T'
typetagFalse  == 70   \* 'F'

\* binary.Write(buf, byteOrder, int32): the four big-endian bytes of a 32-bit value.
PutUint32(v) ==
    << (v \div 16777216) % 256, (v \div 65536) % 256, (v \div 256) % 256, v % 256 >>

\* binary.Read(buf, byteOrder, &int32): the signed 32-bit value of four bytes.
Uint32(b) ==
    (IF b[1] >= 128 THEN b[1] - 256 ELSE b[1]) * 16777216
        + b[2] * 65536 + b[3] * 256 + b[4]

Take(s, n) == SubSeq(s, 1, IF n < Len(s) THEN n ELSE Len(s))
Drop(s, n) == SubSeq(s, n + 1, Len(s))

RECURSIVE Zeros(_)
Zeros(n) == IF n <= 0 THEN <<>> ELSE <<0>> \o Zeros(n - 1)

\* number of iterations of  for j := i; j%4 != 0; j++
PadCount(i) == (4 - (i % 4)) % 4

-----------------------------------------------------------------------------
(* Message *)

NewMessage(addr) ==
    [address |-> addr, argbuf |-> <<>>, typetag |-> <<typetagPrefix>>, ttReadIndex |-> 1]

\* A call's outcome: the message afterwards, the status, and the value returned.
\* Values are records [t, n, s]: tag, number, bytes.
NoVal == [t |-> "-", n |-> 0, s |-> <<>>]
Out(m, st, v) == [m |-> m, st |-> st, v |-> v]

IntVal(n)    == [t |-> "i", n |-> n, s |-> <<>>]
FloatVal(n)  == [t |-> "f", n |-> n, s |-> <<>>]
BoolVal(b)   == [t |-> "T", n |-> IF b THEN 1 ELSE 0, s |-> <<>>]
StringVal(s) == [t |-> "s", n |-> 0, s |-> s]
BlobVal(n, s) == [t |-> "b", n |-> n, s |-> s]

\* msg.typetag[msg.ttReadIndex] panics when the index is not below the length.
TagInRange(m) == m.ttReadIndex < Len(m.typetag)
TagAt(m) == m.typetag[m.ttReadIndex + 1]

\* ReadInt32 that moves the cursor on before it reports the unexpected tag
ReadInt32SkipsTag(m) ==
    IF ~TagInRange(m) THEN Out(m, "panic", NoVal)
    ELSE IF TagAt(m) # typetagInt THEN Out([m EXCEPT !.ttReadIndex = @ + 1], "err", NoVal)
    ELSE IF Len(m.argbuf) < 4 THEN Out([m EXCEPT !.argbuf = <<>>], "err", NoVal)
    ELSE Out([m EXCEPT !.argbuf = Drop(@, 4), !.ttReadIndex = @ + 1],
             "ok", IntVal(Uint32(Take(m.argbuf, 4))))

\* binary.Read of 4 bytes from the buffer: io.ReadFull consumes what is there
\* and fails when fewer than 4 bytes are left.
ReadInt32(m) ==
    IF ~TagInRange(m) THEN Out(m, "panic", NoVal)
    ELSE IF TagAt(m) # typetagInt THEN Out(m, "err", NoVal)
    ELSE IF Len(m.argbuf) < 4 THEN Out([m EXCEPT !.argbuf = <<>>], "err", NoVal)
    ELSE Out([m EXCEPT !.argbuf = Drop(@, 4), !.ttReadIndex = @ + 1],
             "ok", IntVal(Uint32(Take(m.argbuf, 4))))

\* A float32 is carried as its IEEE-754 bit pattern (math.Float32bits).
ReadFloat32(m) ==
    IF ~TagInRange(m) THEN Out(m, "panic", NoVal)
    ELSE IF TagAt(m) # typetagFloat THEN Out(m, "err", NoVal)
    ELSE IF Len(m.argbuf) < 4 THEN Out([m EXCEPT !.argbuf = <<>>], "err", NoVal)
    ELSE Out([m EXCEPT !.argbuf = Drop(@, 4), !.ttReadIndex = @ + 1],
             "ok", FloatVal(Uint32(Take(m.argbuf, 4))))

ReadBool(m) ==
    IF ~TagInRange(m) THEN Out(m, "panic", NoVal)
    ELSE IF TagAt(m) # typetagTrue /\ TagAt(m) # typetagFalse THEN Out(m, "err", NoVal)
    ELSE Out([m EXCEPT !.ttReadIndex = @ + 1], "ok", BoolVal(TagAt(m) = typetagTrue))

\* The loop of ReadString: for i := 0; i < msg.argbuf.Len(); i++ { ReadByte ... }.
\* buf is the unread part of the buffer, so Len(buf) is argbuf.Len() as the
\* condition re-evaluates it; on a null, PadCount(i) more bytes are read
\* (io.EOF ignored) and the loop breaks.
RECURSIVE ReadStringLoop(_, _, _)
ReadStringLoop(buf, i, val) ==
    IF ~(i < Len(buf)) THEN [buf |-> buf, val |-> val]
    ELSE IF Head(buf) = 0 THEN [buf |-> Drop(Tail(buf), PadCount(i)), val |-> val]
    ELSE ReadStringLoop(Tail(buf), i + 1, Append(val, Head(buf)))

ReadString(m) ==
    IF ~TagInRange(m) THEN Out(m, "panic", NoVal)
    ELSE IF TagAt(m) # typetagString THEN Out(m, "err", NoVal)
    ELSE LET r == ReadStringLoop(m.argbuf, 0, <<>>)
         IN  Out([m EXCEPT !.argbuf = r.buf, !.ttReadIndex = @ + 1], "ok", StringVal(r.val))

\* ReadBlob: the length, then argbuf.Read(blob) once; the pad bytes are left.
\* make([]byte, bl) panics on a negative length; Read on an empty buffer is
\* io.EOF unless the slice is empty.  The value is the length bl and the bytes
\* actually copied (the rest of the slice stays zero).
ReadBlob(m) ==
    IF ~TagInRange(m) THEN Out(m, "panic", NoVal)
    ELSE IF TagAt(m) # typetagBlob THEN Out(m, "err", NoVal)
    ELSE IF Len(m.argbuf) < 4 THEN Out([m EXCEPT !.argbuf = <<>>], "err", NoVal)
    ELSE LET bl   == Uint32(Take(m.argbuf, 4))
             rest == Drop(m.argbuf, 4)
             m1   == [m EXCEPT !.argbuf = rest]
         IN  IF bl < 0 THEN Out(m1, "panic", NoVal)
             ELSE IF Len(rest) = 0 /\ bl > 0 THEN Out(m1, "err", NoVal)
             ELSE Out([m EXCEPT !.argbuf = Drop(rest, bl), !.ttReadIndex = @ + 1],
                      "ok", BlobVal(bl, Take(rest, bl)))

WriteInt32(m, val) ==
    [m EXCEPT !.typetag = Append(@, typetagInt), !.argbuf = @ \o PutUint32(val)]

WriteFloat32(m, val) ==
    [m EXCEPT !.typetag = Append(@, typetagFloat), !.argbuf = @ \o PutUint32(val)]

WriteBool(m, val) ==
    [m EXCEPT !.typetag = Append(@, IF val THEN typetagTrue ELSE typetagFalse)]

\* WriteString without the loop that pads with nulls
WriteStringNoPad(m, val) ==
    [m EXCEPT !.typetag = Append(@, typetagString), !.argbuf = @ \o val]

WriteString(m, val) ==
    [m EXCEPT !.typetag = Append(@, typetagString),
              !.argbuf = @ \o val \o Zeros(PadCount(Len(val)))]

WriteBlob(m, blob) ==
    IF Len(blob) = 0 THEN m
    ELSE [m EXCEPT !.typetag = Append(@, typetagBlob),
                   !.argbuf = @ \o PutUint32(Len(blob)) \o blob \o Zeros(PadCount(Len(blob)))]

TypeTags(m) == m.typetag

\* Message.bytes: address, typetag, padding of the two together, then the
\* unread arguments (bytes.Buffer.Bytes()).
bytes(m) ==
    m.address \o m.typetag \o Zeros(PadCount(Len(m.address) + Len(m.typetag))) \o m.argbuf

\* index (0-based) of the first element of data equal to c, Len(data) if none
RECURSIVE IndexFrom(_, _, _)
IndexFrom(data, c, i) ==
    IF i >= Len(data) THEN Len(data)
    ELSE IF data[i + 1] = c THEN i
    ELSE IndexFrom(data, c, i + 1)

\* parseArguments(data) on message m: the typetag up to the first null (left
\* nil when there is none), then the arguments from the next multiple of 4,
\* counted from the start of data.  data[i:] with i > len(data) panics.
parseArguments(m, data) ==
    IF Len(data) = 0 \/ data[1] # typetagPrefix THEN Out(m, "err", NoVal)
    ELSE LET z  == IndexFrom(data, 0, 0)
             tt == IF z < Len(data) THEN Take(data, z) ELSE <<>>
             i  == z + PadCount(z)
         IN  IF i > Len(data) THEN Out(m, "panic", NoVal)
             ELSE Out([m EXCEPT !.typetag = tt, !.argbuf = Drop(data, i)], "ok", NoVal)

\* parseMessage(data): the address is what precedes the first ','.
parseMessage(data) ==
    LET i == IndexFrom(data, typetagPrefix, 0)
        m == [address |-> IF i < Len(data) THEN Take(data, i) ELSE <<>>,
              typetag |-> <<>>, argbuf |-> <<>>, ttReadIndex |-> 1]
    IN  parseArguments(m, Drop(data, i))


\* The loop of Message.Print over msg.typetag[1:], at (1-based) position k:
\* each int, float, string and bool tag calls the typed read, whose error ends
\* the loop; blob tags and all other tags are passed over without a read.
\* vs collects the values read.
RECURSIVE PrintLoop(_, _, _)
PrintLoop(m, k, vs) ==
    IF k > Len(m.typetag) THEN [m |-> m, st |-> "ok", vs |-> vs]
    ELSE LET tt == m.typetag[k]
             r  == CASE tt = typetagInt    -> ReadInt32(m)
                      [] tt = typetagFloat  -> ReadFloat32(m)
                      [] tt = typetagString -> ReadString(m)
                      [] tt = typetagTrue \/ tt = typetagFalse -> ReadBool(m)
                      [] OTHER -> Out(m, "skip", NoVal)
         IN  IF r.st = "skip" THEN PrintLoop(m, k + 1, vs)
             ELSE IF r.st = "ok" THEN PrintLoop(r.m, k + 1, Append(vs, r.v))
             ELSE [m |-> r.m, st |-> r.st, vs |-> vs]

\* Message.Print: msg.typetag[1:] panics on a nil typetag.
MessagePrint(m) ==
    IF Len(m.typetag) < 1 THEN [m |-> m, st |-> "panic", vs |-> <<>>]
    ELSE PrintLoop(m, 2, <<>>)

-----------------------------------------------------------------------------
(* Inputs of the codec specification *)

Addresses ==
    { <<47, 97>>,                                   \* "/a"
      <<47, 97, 98>>,                               \* "/ab"
      <<47, 97, 98, 99>>,                           \* "/abc"
      <<47, 97, 100, 100, 114, 101, 115, 115, 47, 116, 101, 115, 116>> }  \* "/address/test"
Int32Vals   == {1122, -1}
Float32Vals == {1065353216}                         \* 1.0
StringVals  == { <<>>, <<97, 98, 99>>, <<97, 98, 99, 100>> }   \* "", "abc", "abcd"
BlobVals    == { <<>>, <<1, 2, 3>> }

-----------------------------------------------------------------------------
(* Packets and the PatternMatching dispatcher *)

\* Packet: a Message (addr) or a Bundle (tt = Timetag.Time(), packets).
NoPacket   == [kind |-> "none", addr |-> "", tt |-> 0, packets |-> <<>>]
Msg(a)     == [kind |-> "msg", addr |-> a, tt |-> 0, packets |-> <<>>]
Bundle(t, ps) == [kind |-> "bundle", addr |-> "", tt |-> t, packets |-> ps]

Patterns == {"/foo", "/bar", "/*"}     \* addresses a handler can be registered at
MsgAddrs == {"/foo", "/bar"}           \* addresses of incoming messages

\* msg.Match(address, exactMatch): literal comparison, or OSC pattern matching
\* where "/*" matches every one-part address.
Match(a, address, exactMatch) ==
    IF exactMatch THEN a = address
    ELSE address = a \/ address = "/*"

\* What a dispatch does: the handlers called, the packets handed to invoke, and
\* whether an error is returned.
Ret(cs, ps, e) == [calls |-> cs, invoked |-> ps, err |-> e]

\* a handler whose error is lost
HandleLosesError(address, m, bad) == Ret(<< [handler |-> address, addr |-> m.addr] >>, <<>>, FALSE)

\* handler.Handle(msg) of the handler registered at address
Handle(address, m, bad) == Ret(<< [handler |-> address, addr |-> m.addr] >>, <<>>, address \in bad)

\* PatternMatching.Invoke: range over the map h and return the result of the
\* first handler whose address matches.  Go ranges over a map in an order it
\* chooses, so any matching entry can be the first one: the set of outcomes.
Invoke(h, m, exactMatch, bad) ==
    LET matched == { i \in 1..Len(h) : Match(m.addr, h[i], exactMatch) }
    IN  IF matched = {} THEN { Ret(<<>>, <<>>, FALSE) }
        ELSE { Handle(h[i], m, bad) : i \in matched }

RECURSIVE immediately(_, _, _, _), invoke(_, _, _, _)

\* PatternMatching.immediately: the body of the range loop returns in its
\* first iteration, with the error of invoke or with nil.
immediately(h, b, exactMatch, bad) ==
    IF b.packets = <<>> THEN { Ret(<<>>, <<>>, FALSE) }
    ELSE invoke(h, b.packets[1], exactMatch, bad)

\* PatternMatching.invoke: a Message goes to Invoke, a Bundle to immediately.
invoke(h, p, exactMatch, bad) ==
    { Ret(r.calls, <<p>> \o r.invoked, r.err) :
        r \in IF p.kind = "msg" THEN Invoke(h, p, exactMatch, bad)
                                ELSE immediately(h, p, exactMatch, bad) }

\* tt.Before(now)
Before(tt, now) == tt < now

\* a timer that fires at once, whatever the duration
TimerFiredAtOnce(dl, clk) == TRUE

\* <-time.After(d) started at now: the timer has fired once the clock has
\* reached now + d.
TimerFired(dl, clk) == clk >= dl

-----------------------------------------------------------------------------
(* Initial values of the three groups of variables *)

CodecIdle ==
    /\ msg = NewMessage(<<47>>) /\ sent = NewMessage(<<47>>)
    /\ written = <<>> /\ reads = <<>> /\ last = "none" /\ lastOp = "none" /\ phase = "off"

DispIdle ==
    /\ table = <<>> /\ clock = 0 /\ dstate = "off" /\ dpacket = NoPacket /\ dexact = FALSE
    /\ dbad = {} /\ dnow = 0 /\ deadline = 0 /\ calls = <<>> /\ invoked = <<>>
    /\ dresult = "none" /\ dcancel = FALSE /\ waitCancelled = FALSE

ServeIdle ==
    /\ servePc = "off" /\ serveRet = "none" /\ loopPc = "off" /\ loopData = 0
    /\ loopWorker = 0 /\ ready = <<>> /\ workerPc = <<>> /\ workerData = <<>>
    /\ closed = FALSE /\ closeRet = "none" /\ ctxDone = FALSE /\ nread = 0 /\ handed = <<>>
    /\ workerLast = <<>>

-----------------------------------------------------------------------------
(* The codec specification: a writer builds a message with Write* calls;     *)
(* the message is then read back with typed reads, either directly or after  *)
(* going through bytes() and parseMessage().                                 *)

InitMsg ==
    /\ msg \in { NewMessage(a) : a \in Addresses }
    /\ sent = msg
    /\ written = <<>> /\ reads = <<>> /\ last = "none" /\ lastOp = "none" /\ phase = "write"
    /\ DispIdle /\ ServeIdle

Wrote(m, v) ==
    /\ phase = "write" /\ Len(written) < MaxArgs
    /\ msg' = m /\ sent' = m /\ written' = Append(written, v)
    /\ UNCHANGED <<reads, last, lastOp, phase, dispVars, serveVars>>

CallWriteInt32   == \E v \in Int32Vals   : Wrote(WriteInt32(msg, v), IntVal(v))
CallWriteFloat32 == \E v \in Float32Vals : Wrote(WriteFloat32(msg, v), FloatVal(v))
CallWriteBool    == \E v \in BOOLEAN     : Wrote(WriteBool(msg, v), BoolVal(v))
CallWriteString  == \E v \in StringVals  : Wrote(WriteString(msg, v), StringVal(v))
CallWriteBlob    == \E v \in BlobVals    : Wrote(WriteBlob(msg, v), BlobVal(Len(v), v))

\* The reader takes the message as built.
StartRead ==
    /\ phase = "write"
    /\ phase' = "read"
    /\ UNCHANGED <<msg, sent, written, reads, last, lastOp, dispVars, serveVars>>

\* parseMessage(msg.bytes())
Transmit ==
    /\ phase = "write"
    /\ LET r == parseMessage(bytes(msg))
       IN  /\ last' = r.st
           /\ IF r.st = "ok" THEN msg' = r.m /\ phase' = "recv"
                             ELSE msg' = msg /\ phase' = "parseFailed"
    /\ UNCHANGED <<sent, written, reads, lastOp, dispVars, serveVars>>

\* Datagrams as they may arrive from another OSC implementation.
WireData ==
    { <<47, 97, 0, 0, 44, 105, 0, 0, 0, 0, 4, 98>>,          \* "/a" ",i" 1122
      <<47, 97, 0, 0, 44, 120, 0, 0>>,                       \* "/a" ",x"
      <<47, 97, 0, 0, 44, 105, 105, 105>>,                   \* "/a" ",iii" cut before the null
      <<47, 97, 0, 0>>,                                      \* "/a" without type tags
      <<47, 97, 0, 0, 44, 115, 0, 0, 97, 98, 99, 0>>,        \* "/a" ",s" "abc"
      <<47, 97, 0, 0, 44, 98, 105, 0, 0, 0, 0, 3, 1, 2, 3, 0, 0, 0, 4, 98>> }  \* "/a" ",bi" blob(1,2,3) 1122

\* parseMessage(data) on a received datagram
Receive ==
    /\ phase = "write" /\ written = <<>>
    /\ \E data \in WireData :
          LET r == parseMessage(data)
          IN  /\ last' = r.st
              /\ IF r.st = "ok" THEN msg' = r.m /\ phase' = "wire"
                                ELSE msg' = msg /\ phase' = "parseFailed"
    /\ UNCHANGED <<sent, written, reads, lastOp, dispVars, serveVars>>

Reading == phase \in {"read", "recv", "wire"}

DidRead(op, r) ==
    /\ Reading
    /\ msg' = r.m
    /\ last' = r.st
    /\ lastOp' = op
    /\ reads' = IF r.st = "ok" THEN Append(reads, r.v) ELSE reads
    /\ phase' = IF r.st = "panic" THEN "dead" ELSE phase
    /\ UNCHANGED <<sent, written, dispVars, serveVars>>

CallReadInt32   == DidRead("i", ReadInt32(msg))
CallReadFloat32 == DidRead("f", ReadFloat32(msg))
CallReadBool    == DidRead("T", ReadBool(msg))
CallReadString  == DidRead("s", ReadString(msg))
CallReadBlob    == DidRead("b", ReadBlob(msg))

\* msg.Print(w) on a writer that accepts everything
CallPrint ==
    /\ Reading
    /\ LET r == MessagePrint(msg)
       IN  /\ msg' = r.m
           /\ last' = r.st
           /\ reads' = reads \o r.vs
           /\ phase' = IF r.st = "panic" THEN "dead" ELSE phase
    /\ lastOp' = "print"
    /\ UNCHANGED <<sent, written, dispVars, serveVars>>

NextMsg ==
    \/ CallWriteInt32 \/ CallWriteFloat32 \/ CallWriteBool
    \/ CallWriteString \/ CallWriteBlob
    \/ StartRead \/ Transmit \/ Receive
    \/ CallReadInt32 \/ CallReadFloat32 \/ CallReadBool
    \/ CallReadString \/ CallReadBlob \/ CallPrint

SpecMsg == InitMsg /\ [][NextMsg]_vars

-----------------------------------------------------------------------------
(* Claims about the codec, checked under SpecMsg *)

\* The typed read that matches a written value's type.
ReadFor(v, m) ==
    CASE v.t = "i" -> ReadInt32(m)
      [] v.t = "f" -> ReadFloat32(m)
      [] v.t = "T" -> ReadBool(m)
      [] v.t = "s" -> ReadString(m)
      [] OTHER     -> ReadBlob(m)

\* C1: round trip.  parseMessage(m.bytes()) succeeds for every message built by
\* NewMessage and Write* calls; the parsed message has the same address and the
\* same type tags; and as long as the reader has followed the order of the
\* written arguments, it has read exactly the written values and the next read
\* in that order succeeds with the next written value.
RoundTrip ==
    /\ phase # "parseFailed"
    /\ phase = "recv" =>
          /\ msg.address = sent.address
          /\ TypeTags(msg) = TypeTags(sent)
          /\ Len(reads) <= Len(written) /\ reads = SubSeq(written, 1, Len(reads))
          /\ Len(reads) < Len(written) =>
                LET r == ReadFor(written[Len(reads) + 1], msg)
                IN  r.st = "ok" /\ r.v = written[Len(reads) + 1]

\* C2: alignment.  After any sequence of Write* calls on a new message the
\* argument buffer's length and the length of bytes() are multiples of 4.
AlignmentInvariant ==
    phase = "write" => /\ Len(msg.argbuf) % 4 = 0
                       /\ Len(bytes(msg)) % 4 = 0

\* C2 witness: a message with a string and a blob whose lengths are not
\* multiples of 4, at an address whose length with the tags is not one either.
AlignmentWitness ==
    /\ phase = "write"
    /\ (Len(msg.address) + Len(msg.typetag)) % 4 # 0
    /\ \E j, k \in 1..Len(written) :
          /\ written[j].t = "s" /\ Len(written[j].s) % 4 # 0
          /\ written[k].t = "b" /\ written[k].n % 4 # 0
    /\ Len(msg.argbuf) > 0

\* the smallest multiple of 4 above n (room for n bytes and at least one null)
AlignedEnd(n) == 4 * ((n \div 4) + 1)

\* C3: wire layout.  In bytes(), the address is followed by nulls up to the
\* next 4-byte boundary (at least one), the type tags start there and are
\* followed by nulls up to the next boundary (at least one), and the
\* arguments start at that boundary.
WireLayout ==
    phase = "write" =>
        LET b     == bytes(msg)
            a     == Len(msg.address)
            ttAt  == AlignedEnd(a)
            argAt == ttAt + AlignedEnd(Len(msg.typetag))
        IN  /\ Len(b) = argAt + Len(msg.argbuf)
            /\ SubSeq(b, 1, a) = msg.address
            /\ \A i \in (a + 1)..ttAt : b[i] = 0
            /\ SubSeq(b, ttAt + 1, ttAt + Len(msg.typetag)) = msg.typetag
            /\ \A i \in (ttAt + Len(msg.typetag) + 1)..argAt : b[i] = 0
            /\ SubSeq(b, argAt + 1, Len(b)) = msg.argbuf

ReadOps == {"i", "f", "T", "s", "b"}

\* the tag tt is the one the typed read op accepts
TagMatches(op, tt) ==
    CASE op = "i" -> tt = typetagInt
      [] op = "f" -> tt = typetagFloat
      [] op = "T" -> tt = typetagTrue \/ tt = typetagFalse
      [] op = "s" -> tt = typetagString
      [] OTHER    -> tt = typetagBlob

\* C12: a typed read called when the tag at the cursor is of another type
\* returns an error and leaves the message unchanged (cursor and argument
\* buffer), so the read of the right type afterwards gives what it would have
\* given before.
MismatchLeavesMessage ==
    [][ (Reading /\ lastOp' \in ReadOps /\ TagInRange(msg)
            /\ ~TagMatches(lastOp', TagAt(msg)))
        => (last' = "err" /\ msg' = msg /\ reads' = reads) ]_vars

MismatchWitness ==
    /\ phase = "read" /\ lastOp = "i" /\ last = "err"
    /\ TagInRange(msg) /\ TagAt(msg) = typetagString /\ Len(msg.argbuf) >= 4

\* C13: after n Write* calls on a new message the type-tag string has length
\* n + 1; an empty blob too adds its tag 'b' and a 4-byte zero length.
TypetagCountsArguments ==
    phase = "write" =>
        /\ Len(msg.typetag) = Len(written) + 1
        /\ (written # <<>> /\ written[Len(written)] = BlobVal(0, <<>>)) =>
              /\ msg.typetag[Len(msg.typetag)] = typetagBlob
              /\ Len(msg.argbuf) >= 4
              /\ Drop(msg.argbuf, Len(msg.argbuf) - 4) = <<0, 0, 0, 0>>

KnownTags == {105, 102, 115, 98, 84, 70, 78, 73, 116}   \* i f s b T F N I t

\* C15: parseMessage never returns a message carrying a tag character outside
\* i, f, s, b, T, F, N, I, t after the leading ','.
ParsedTagsKnown ==
    phase \in {"recv", "wire"} =>
        \A k \in 2..Len(msg.typetag) : msg.typetag[k] \in KnownTags

\* C16: WriteString(s) appends the bytes of s followed by 1 to 4 nulls, a
\* multiple of 4 bytes in all, so every string ends with at least one null.
WriteStringTerminates ==
    [][ (phase = "write" /\ Len(written') = Len(written) + 1
            /\ written'[Len(written')].t = "s")
        => LET val == written'[Len(written')].s
           IN  msg'.argbuf = msg.argbuf \o val \o Zeros(4 - (Len(val) % 4)) ]_vars

\* the Write* call that wrote the value v
WriteFor(m, v) ==
    CASE v.t = "i" -> WriteInt32(m, v.n)
      [] v.t = "f" -> WriteFloat32(m, v.n)
      [] v.t = "T" -> WriteBool(m, v.n = 1)
      [] v.t = "s" -> WriteString(m, v.s)
      [] OTHER     -> WriteBlob(m, v.s)

\* bytes the first k written arguments take in the argument buffer
RECURSIVE WrittenSize(_)
WrittenSize(k) ==
    IF k = 0 THEN 0
    ELSE WrittenSize(k - 1) + Len(WriteFor(NewMessage(<<>>), written[k]).argbuf)

\* the cursor has passed k arguments and the buffer is at the start of argument k + 1
AtArgument(m) ==
    LET k == m.ttReadIndex - 1
    IN  k <= Len(written) /\ m.argbuf = Drop(sent.argbuf, WrittenSize(k))

\* C17: read-cursor consistency.  A successful typed read in tag order on a
\* message positioned at the start of an argument consumes that argument's
\* padded size and nothing more, so the buffer is at the start of the next one.
ReadCursorConsistent ==
    [][ (phase = "read" /\ Len(sent.typetag) = Len(written) + 1
            /\ lastOp' \in ReadOps /\ last' = "ok" /\ AtArgument(msg))
        => AtArgument(msg') ]_vars

\* C19: bytes() is the same before and after typed reads and Print.
BytesIgnoreCursor ==
    phase = "read" => bytes(msg) = bytes(sent)

\* C20: a typed read called with the cursor past the last tag (all arguments
\* read, no arguments, or a parsed type tag without its null) returns an error
\* and does not index the type-tag string out of bounds.
ReadPastTagsFails ==
    [][ (Reading /\ lastOp' \in ReadOps /\ ~TagInRange(msg))
        => (last' = "err" /\ phase' = phase /\ msg' = msg) ]_vars

-----------------------------------------------------------------------------
(* The dispatcher specification: handlers are registered, then bundles are   *)
(* handed to Dispatch and messages to Invoke, while the clock advances and   *)
(* the connection's context may be cancelled.                                *)

PacketLists ==
    { <<>>,
      << Msg("/foo") >>,
      << Msg("/foo"), Msg("/bar") >>,
      << Msg("/bar"), Msg("/foo") >>,
      << Bundle(0, << Msg("/foo"), Msg("/bar") >>), Msg("/foo") >>,
      << Msg("/bar"), Bundle(0, << Msg("/foo") >>) >>,
      << Bundle(0, <<>>), Msg("/foo") >> }

InitDispatch ==
    /\ table = <<>> /\ clock = 0 /\ dstate = "idle" /\ dpacket = NoPacket
    /\ dexact = FALSE /\ dbad = {} /\ dnow = 0 /\ deadline = 0
    /\ calls = <<>> /\ invoked = <<>> /\ dresult = "none" /\ dcancel = FALSE
    /\ waitCancelled = FALSE
    /\ CodecIdle /\ ServeIdle

Stamp(cs) == [ i \in 1..Len(cs) |-> [handler |-> cs[i].handler, addr |-> cs[i].addr, at |-> clock] ]

\* the call returns with outcome r
Returned(r) ==
    /\ calls' = Stamp(r.calls)
    /\ invoked' = r.invoked
    /\ dresult' = IF r.err THEN "err" ELSE "nil"
    /\ dstate' = "done"

\* h[address] = handler, before dispatching starts
Register ==
    /\ dstate = "idle" /\ dresult = "none"
    /\ \E a \in Patterns :
          /\ \A i \in 1..Len(table) : table[i] # a
          /\ table' = Append(table, a)
    /\ UNCHANGED <<clock, dstate, dpacket, dexact, dbad, dnow, deadline, calls, invoked,
                   dresult, dcancel, waitCancelled, codecVars, serveVars>>

\* at most one handler fails during a call
BadSets == { {} } \cup { {table[i]} : i \in 1..Len(table) }

\* h.Dispatch(b, exactMatch) up to its return or to the wait on the timer
DispatchCall ==
    /\ dstate = "idle"
    /\ \E ps \in PacketLists, t \in 0..MaxTime, e \in BOOLEAN, bad \in BadSets :
          LET b == Bundle(t, ps)
          IN  /\ dpacket' = b /\ dexact' = e /\ dbad' = bad /\ dnow' = clock
              /\ IF Before(t, clock)
                 THEN /\ \E r \in immediately(table, b, e, bad) : Returned(r)
                      /\ UNCHANGED deadline
                 ELSE /\ deadline' = clock + (t - clock)
                      /\ dstate' = "waiting"
                      /\ UNCHANGED <<calls, invoked, dresult>>
    /\ UNCHANGED <<table, clock, dcancel, waitCancelled, codecVars, serveVars>>

\* the timer of Dispatch fires and the bundle is invoked
TimerFires ==
    /\ dstate = "waiting"
    /\ TimerFired(deadline, clock)
    /\ \E r \in immediately(table, dpacket, dexact, dbad) : Returned(r)
    /\ UNCHANGED <<table, clock, dpacket, dexact, dbad, dnow, deadline, dcancel,
                   waitCancelled, codecVars, serveVars>>

\* h.Invoke(msg, exactMatch) called on a message
InvokeCall ==
    /\ dstate = "idle"
    /\ \E a \in MsgAddrs, e \in BOOLEAN, bad \in BadSets :
          /\ dpacket' = Msg(a) /\ dexact' = e /\ dbad' = bad /\ dnow' = clock
          /\ \E r \in Invoke(table, Msg(a), e, bad) : Returned(r)
    /\ UNCHANGED <<table, clock, deadline, dcancel, waitCancelled, codecVars, serveVars>>

\* the caller takes the result; the dispatcher is ready for the next packet
NextPacket ==
    /\ dstate = "done"
    /\ dstate' = "idle" /\ dpacket' = NoPacket /\ dexact' = FALSE /\ dbad' = {}
    /\ dnow' = 0 /\ deadline' = 0 /\ calls' = <<>> /\ invoked' = <<>> /\ dresult' = "nil"
    /\ waitCancelled' = FALSE
    /\ UNCHANGED <<table, clock, dcancel, codecVars, serveVars>>

Tick ==
    /\ clock < MaxTime
    /\ clock' = clock + 1
    /\ UNCHANGED <<table, dstate, dpacket, dexact, dbad, dnow, deadline, calls, invoked,
                   dresult, dcancel, waitCancelled, codecVars, serveVars>>

\* the context of the connection is cancelled
CancelDispatch ==
    /\ ~dcancel
    /\ dcancel' = TRUE
    /\ waitCancelled' = (dstate = "waiting")
    /\ UNCHANGED <<table, clock, dstate, dpacket, dexact, dbad, dnow, deadline, calls,
                   invoked, dresult, codecVars, serveVars>>

NextDispatch ==
    \/ Register \/ DispatchCall \/ TimerFires \/ InvokeCall \/ NextPacket
    \/ Tick \/ CancelDispatch

SpecDispatch == InitDispatch /\ [][NextDispatch]_vars

-----------------------------------------------------------------------------
(* Claims about the dispatcher, checked under SpecDispatch *)

\* the handlers of h that match message address a, in registration order
RECURSIVE MatchingHandlers(_, _, _)
MatchingHandlers(h, a, exactMatch) ==
    IF h = <<>> THEN <<>>
    ELSE (IF Match(a, Head(h), exactMatch) THEN << Head(h) >> ELSE <<>>)
            \o MatchingHandlers(Tail(h), a, exactMatch)

HandlersCalled == [ i \in 1..Len(calls) |-> calls[i].handler ]

\* C4: when a message is dispatched and no handler fails, the handlers called
\* are exactly the registered handlers that match its address, each once, in
\* registration order.
InvokesAllMatching ==
    (dstate = "done" /\ dpacket.kind = "msg" /\ dbad = {}) =>
        HandlersCalled = MatchingHandlers(table, dpacket.addr, dexact)

\* every packet of a packet list, nested bundles included, in declaration order
RECURSIVE PreOrder(_)
PreOrder(ps) ==
    IF ps = <<>> THEN <<>>
    ELSE << Head(ps) >> \o PreOrder(Head(ps).packets) \o PreOrder(Tail(ps))

\* C5: when a bundle is dispatched and no handler fails, every packet of the
\* bundle, recursively, is handed to invoke, in declaration order.
BundleDispatchesEveryPacket ==
    (dstate = "done" /\ dpacket.kind = "bundle" /\ dbad = {}) =>
        invoked = PreOrder(dpacket.packets)

\* C6: no handler of a bundle runs before the clock has reached the bundle's
\* time tag, and a bundle whose time tag is already past when Dispatch is
\* called does not wait: its handlers run at the time of the call.
NotBeforeTimetag ==
    dpacket.kind = "bundle" =>
        /\ \A i \in 1..Len(calls) : calls[i].at >= dpacket.tt
        /\ dpacket.tt < dnow =>
              /\ dstate # "waiting"
              /\ \A i \in 1..Len(calls) : calls[i].at = dnow

\* C6 witness: a bundle with a future time tag has waited and its handler ran.
FutureBundleHandled ==
    /\ dstate = "done" /\ dpacket.kind = "bundle"
    /\ dpacket.tt > dnow
    /\ calls # <<>>

\* C7: once cancellation has hit a bundle waiting for its time tag, no handler
\* runs for that bundle.
CancelDropsBundle == (waitCancelled /\ dpacket.tt > dnow) => calls = <<>>

-----------------------------------------------------------------------------
(* The server specification: Serve with its reader goroutine and workers,    *)
(* the socket, Close and the cancellation of the context.                    *)

\* the dispatcher given to Serve, and the handlers of it that may fail
ServeTable == << "/foo", "/*" >>
ServeBadSets == { {} } \cup { {ServeTable[i]} : i \in 1..Len(ServeTable) }

\* record of a dispatch with outcome r: the handlers called, the positions of
\* the calls that returned an error, and whether the dispatcher returned one
NoDispatch == [handlers |-> <<>>, failing |-> {}, err |-> FALSE]
Dispatched(r, bad) ==
    [handlers |-> [ i \in 1..Len(r.calls) |-> r.calls[i].handler ],
     failing  |-> { i \in 1..Len(r.calls) : r.calls[i].handler \in bad },
     err      |-> r.err]

InitServe ==
    /\ servePc = "init" /\ serveRet = "none" /\ loopPc = "off" /\ loopData = 0
    /\ loopWorker = 0 /\ ready = <<>> /\ workerPc = <<>> /\ workerData = <<>>
    /\ closed = FALSE /\ closeRet = "none" /\ ctxDone = FALSE /\ nread = 0 /\ handed = <<>>
    /\ workerLast = <<>>
    /\ CodecIdle /\ DispIdle

Workers == 1..Len(workerPc)

\* Serve up to its select: the dispatcher is checked, then the workers and
\* the reader goroutine are started.
ServeStart ==
    /\ servePc = "init"
    /\ \E n \in 1..MaxWorkers, valid \in BOOLEAN :
          IF valid
          THEN /\ workerPc' = [ w \in 1..n |-> "signal" ]
               /\ workerData' = [ w \in 1..n |-> 0 ]
               /\ workerLast' = [ w \in 1..n |-> NoDispatch ]
               /\ loopPc' = "read"
               /\ servePc' = "select"
               /\ UNCHANGED serveRet
          ELSE /\ servePc' = "returned" /\ serveRet' = "invalid"
               /\ UNCHANGED <<workerPc, workerData, workerLast, loopPc>>
    /\ UNCHANGED <<loopData, loopWorker, ready, closed, ctxDone, nread, handed,
                   closeRet, codecVars, dispVars>>

\* Serve returns with v
ServeReturns(v) == servePc' = "returned" /\ serveRet' = v

\* select case err := <-errChan, the sender being the reader goroutine
ServeRecvLoopErr ==
    /\ servePc = "select" /\ loopPc = "sendErr"
    /\ ServeReturns("wrapped")
    /\ loopPc' = "read"
    /\ UNCHANGED <<loopData, loopWorker, ready, workerPc, workerData, closed, ctxDone,
                   nread, handed, closeRet, workerLast, codecVars, dispVars>>

\* select case err := <-errChan, the sender being a worker
ServeRecvWorkerErr ==
    /\ servePc = "select"
    /\ \E w \in Workers :
          /\ workerPc[w] \in {"sendErr", "sendParseErr"}
          /\ workerPc' = [workerPc EXCEPT ![w] = IF @ = "sendErr" THEN "signal" ELSE "exited"]
    /\ ServeReturns("wrapped")
    /\ UNCHANGED <<loopPc, loopData, loopWorker, ready, workerData, closed, ctxDone,
                   nread, handed, closeRet, workerLast, codecVars, dispVars>>

\* select case <-conn.closeChan
ServeSeesClose ==
    /\ servePc = "select" /\ closed
    /\ ServeReturns("nil")
    /\ UNCHANGED <<loopPc, loopData, loopWorker, ready, workerPc, workerData, closed,
                   ctxDone, nread, handed, closeRet, workerLast, codecVars, dispVars>>

\* select case <-conn.ctx.Done()
ServeSeesDone ==
    /\ servePc = "select" /\ ctxDone
    /\ ServeReturns("ctx")
    /\ UNCHANGED <<loopPc, loopData, loopWorker, ready, workerPc, workerData, closed,
                   ctxDone, nread, handed, closeRet, workerLast, codecVars, dispVars>>

\* conn.serve: ReadFromUDP returns a datagram
LoopReadData ==
    /\ loopPc = "read" /\ ~closed /\ nread < MaxDatagrams
    /\ nread' = nread + 1 /\ loopData' = nread + 1
    /\ loopPc' = "recvReady"
    /\ UNCHANGED <<servePc, serveRet, loopWorker, ready, workerPc, workerData, closed,
                   ctxDone, handed, closeRet, workerLast, codecVars, dispVars>>

\* conn.serve: ReadFromUDP returns an error (always so once the socket is
\* closed); the reader goroutine goes on to errChan <- err
LoopReadError ==
    /\ loopPc = "read"
    /\ loopPc' = "sendErr"
    /\ UNCHANGED <<servePc, serveRet, loopData, loopWorker, ready, workerPc, workerData,
                   closed, ctxDone, nread, handed, closeRet, workerLast, codecVars, dispVars>>

\* conn.serve taking the first ready worker without removing it from ready
LoopPeeksReady ==
    /\ loopPc = "recvReady" /\ ready # <<>>
    /\ loopWorker' = Head(ready)
    /\ loopPc' = "handoff"
    /\ UNCHANGED <<servePc, serveRet, loopData, ready, workerPc, workerData, closed, ctxDone,
                   nread, handed, closeRet, workerLast, codecVars, dispVars>>

\* conn.serve: worker := <-ready
LoopRecvReady ==
    /\ loopPc = "recvReady" /\ ready # <<>>
    /\ loopWorker' = Head(ready) /\ ready' = Tail(ready)
    /\ loopPc' = "handoff"
    /\ UNCHANGED <<servePc, serveRet, loopData, workerPc, workerData, closed, ctxDone,
                   nread, handed, closeRet, workerLast, codecVars, dispVars>>

\* conn.serve: worker.DataChan <- Incoming{...}, received by that worker;
\* serve returns nil and the for loop calls it again
LoopHandoff ==
    /\ loopPc = "handoff" /\ workerPc[loopWorker] = "recv"
    /\ workerPc' = [workerPc EXCEPT ![loopWorker] = "parse"]
    /\ workerData' = [workerData EXCEPT ![loopWorker] = loopData]
    /\ handed' = Append(handed, <<loopData, loopWorker>>)
    /\ loopPc' = "read" /\ loopData' = 0 /\ loopWorker' = 0
    /\ UNCHANGED <<servePc, serveRet, ready, closed, ctxDone, nread, closeRet, workerLast, codecVars, dispVars>>

\* Worker.Run: the worker puts itself on ready and waits for an Incoming
WorkerReady ==
    /\ \E w \in Workers :
          /\ workerPc[w] = "signal" /\ Len(ready) < Len(workerPc)
          /\ ready' = Append(ready, w)
          /\ workerPc' = [workerPc EXCEPT ![w] = "recv"]
          /\ workerLast' = [workerLast EXCEPT ![w] = NoDispatch]
    /\ UNCHANGED <<servePc, serveRet, loopPc, loopData, loopWorker, workerData, closed,
                   ctxDone, nread, handed, closeRet, codecVars, dispVars>>

\* Worker.Run: the datagram is parsed; a parse error is reported and the
\* worker exits, otherwise the dispatcher is invoked
WorkerParse ==
    /\ \E w \in Workers, parsed \in BOOLEAN :
          /\ workerPc[w] = "parse"
          /\ workerPc' = [workerPc EXCEPT ![w] = IF parsed THEN "handling" ELSE "sendParseErr"]
    /\ UNCHANGED <<servePc, serveRet, loopPc, loopData, loopWorker, ready, workerData,
                   closed, ctxDone, nread, handed, closeRet, workerLast, codecVars, dispVars>>

\* Worker.Run: the dispatcher is invoked on the message of the datagram and
\* returns; an error goes to errChan, otherwise the worker signals ready again
WorkerHandlerReturns ==
    /\ \E w \in Workers, a \in MsgAddrs, bad \in ServeBadSets :
          \E r \in Invoke(ServeTable, Msg(a), FALSE, bad) :
              /\ workerPc[w] = "handling"
              /\ workerPc' = [workerPc EXCEPT ![w] = IF r.err THEN "sendErr" ELSE "signal"]
              /\ workerData' = [workerData EXCEPT ![w] = 0]
              /\ workerLast' = [workerLast EXCEPT ![w] = Dispatched(r, bad)]
    /\ UNCHANGED <<servePc, serveRet, loopPc, loopData, loopWorker, ready, closed,
                   ctxDone, nread, handed, closeRet, codecVars, dispVars>>

\* conn.udpConn.Close(): closing an open socket succeeds, closing it again fails
SocketClose(isClosed) == IF isClosed THEN "err" ELSE "nil"

\* conn.Close(): close(conn.closeChan), then the result of closing the socket
\* is returned.  Nothing in it looks at whether Serve was ever called.  (A
\* second close of closeChan panics; Close is called once.)
Close ==
    /\ ~closed
    /\ closed' = TRUE
    /\ closeRet' = SocketClose(closed)
    /\ UNCHANGED <<servePc, serveRet, loopPc, loopData, loopWorker, ready, workerPc,
                   workerData, ctxDone, nread, handed, workerLast, codecVars, dispVars>>

\* the context of the connection is cancelled or its deadline passes
CancelCtx ==
    /\ ~ctxDone
    /\ ctxDone' = TRUE
    /\ UNCHANGED <<servePc, serveRet, loopPc, loopData, loopWorker, ready, workerPc,
                   workerData, closed, nread, handed, closeRet, workerLast, codecVars, dispVars>>

NextServe ==
    \/ ServeStart \/ ServeRecvLoopErr \/ ServeRecvWorkerErr \/ ServeSeesClose \/ ServeSeesDone
    \/ LoopReadData \/ LoopReadError \/ LoopRecvReady \/ LoopHandoff
    \/ WorkerReady \/ WorkerParse \/ WorkerHandlerReturns
    \/ Close \/ CancelCtx

SpecServe == InitServe /\ [][NextServe]_vars

\* The goroutines run whenever they can: a select with a ready case is taken,
\* a read on a closed socket returns, channel operations that can proceed do.
\* The arrival of datagrams, read errors on an open socket, Close and the
\* cancellation are up to the environment.
ServeStep  == ServeRecvLoopErr \/ ServeRecvWorkerErr \/ ServeSeesClose \/ ServeSeesDone
LoopStep   == (closed /\ LoopReadError) \/ LoopRecvReady \/ LoopHandoff
WorkerStep == WorkerReady \/ WorkerParse \/ WorkerHandlerReturns

FairSpecServe ==
    SpecServe /\ WF_vars(ServeStep) /\ WF_vars(LoopStep) /\ WF_vars(WorkerStep)

-----------------------------------------------------------------------------
(* Claims about the server, checked under SpecServe and FairSpecServe *)

\* the reader goroutine has ended (or was never started)
LoopStopped == loopPc \in {"off", "exited"}

\* C8: once the socket is closed, Close has fired, the context is cancelled or
\* a socket read has failed, the reader goroutine eventually terminates.
ReadLoopTerminates ==
    (closed \/ ctxDone \/ loopPc = "sendErr") ~> LoopStopped

\* C9: whenever Serve returns while the context is cancelled, it returns the
\* context's error, unwrapped.
CancelReturnsCtxErr ==
    [][ (servePc = "select" /\ ctxDone /\ servePc' = "returned") => serveRet' = "ctx" ]_vars

\* C10: Serve does not return while a handler started by one of its workers
\* is still running.
ServeWaitsForHandlers ==
    [][ (servePc = "select" /\ servePc' = "returned") =>
            \A w \in Workers : workerPc'[w] # "handling" ]_vars

\* C11: Close on a connection on which Serve was never started returns an
\* error.
CloseNotRunningFails ==
    (closed /\ servePc = "init") => closeRet = "err"

\* C14: a handler error ends the dispatch of its message: the failing handler
\* is the last one called, the dispatcher returns the error, and once Serve
\* has received it from the error channel Serve has returned an error.
HandlerErrorStopsServe ==
    \A w \in Workers :
        LET d == workerLast[w]
        IN  d.failing # {} =>
               /\ d.failing = {Len(d.handlers)}
               /\ d.err
               /\ \/ workerPc[w] = "sendErr"
                  \/ workerPc[w] = "signal" /\ servePc = "returned" /\ serveRet = "wrapped"

HandlerErrorReturned ==
    /\ servePc = "returned" /\ serveRet = "wrapped"
    /\ \E w \in Workers : workerPc[w] = "signal" /\ workerLast[w].failing # {}

\* number of times worker w is held as ready: in the ready channel or taken
\* from it by the reader and not yet handed a datagram
ReadyTokens(w) ==
    Cardinality({ i \in 1..Len(ready) : ready[i] = w }) + (IF loopWorker = w THEN 1 ELSE 0)

\* C18: every datagram read is handed to exactly one worker, in the order
\* read, and only to a worker that has signalled ready and was handed nothing
\* since that signal; a datagram not handed yet is the one the reader holds.
HandOffDiscipline ==
    /\ \A i \in 1..Len(handed) : handed[i][1] = i /\ handed[i][2] \in Workers
    /\ Len(handed) <= nread /\ nread <= Len(handed) + 1
    /\ nread = Len(handed) + 1 => loopData = nread
    /\ \A w \in Workers :
          /\ ReadyTokens(w) = (IF workerPc[w] = "recv" THEN 1 ELSE 0)
          /\ workerData[w] # 0 =>
                /\ \E i \in 1..Len(handed) : handed[i] = <<workerData[w], w>>
                /\ \A v \in Workers : workerData[v] = workerData[w] => v = w

TwoHandOffs ==
    /\ Len(handed) = 2 /\ handed[1][2] # handed[2][2]
    /\ workerData[handed[2][2]] = 2

=============================================================================
